---- MODULE Spec2Model ----
(***************************************************************************)
(* A model of templheroicons: the icon record, its builder, the body cache *)
(* and the SVG renderer.  The repository carries two generations of the    *)
(* code side by side:                                                      *)
(*   gen = "mutex": unnamed/part_001 (and part_002) with helpers.go: a     *)
(*                  single Color override, a mutex-guarded body cache, a   *)
(*                  builder holding a pointer to a deep clone;             *)
(*   gen = "once" : icon.go with icon_config.go: Stroke/StrokeWidth/Fill   *)
(*                  overrides, a sync.Once-guarded cache, a per-icon       *)
(*                  mutex, a builder holding a struct copy.                *)
(* Text that reaches the output (sizes, colours, attribute keys and        *)
(* values) is a sequence of one-character strings, so that escaping,       *)
(* lower-casing, substring search and sorting are computed as the code     *)
(* computes them.  Icon names and bodies are opaque and stay TLA+ strings. *)
(***************************************************************************)
EXTENDS Integers, Sequences, FiniteSets, TLC

VARIABLES
    gen,            \* which generation of the code runs
    datasetKind,    \* what heroiconsJSONSource holds (see DatasetKinds)
    icons,          \* heap of Icon structs: address -> record, or NoIcon
    attrMaps,       \* heap of templ.Attributes maps: address -> map, or NoMap
    builders,       \* the IconBuilders made so far, each with the address of its icon
    held,           \* addresses the caller got back from Build / GetIcon / Icon.Set*
    iconBodyCache,  \* the cache mapping (iconBodyCache, resp. iconData)
    cacheMutex,     \* holder of cacheMutex (0: free)
    iconDataOnce,   \* sync.Once: "fresh", "running", "done"
    iconMu,         \* holder of each Icon's mu (0: free)
    decodes,        \* how many times the dataset was opened and decoded
    pc,             \* each goroutine's position
    frame,          \* each goroutine's locals
    out,            \* what each goroutine's last call returned
    calls,          \* how many statements the configuring caller has run
    fetch           \* the generator's dataset download: position, locals, cache file

vars == <<gen, datasetKind, icons, attrMaps, builders, held, iconBodyCache,
          cacheMutex, iconDataOnce, iconMu, decodes, pc, frame, out, calls, fetch>>

----------------------------------------------------------------------------
(* Text *)

Upper == <<"A", "B", "C", "D", "E", "F", "G", "H", "I", "J", "K", "L", "M",
           "N", "O", "P", "Q", "R", "S", "T", "U", "V", "W", "X", "Y", "Z">>
Lowers == <<"a", "b", "c", "d", "e", "f", "g", "h", "i", "j", "k", "l", "m",
            "n", "o", "p", "q", "r", "s", "t", "u", "v", "w", "x", "y", "z">>
Digits == <<"0", "1", "2", "3", "4", "5", "6", "7", "8", "9">>

\* The characters of the model in byte order (the order sort.Strings compares by).
Ascii == <<" ", "\"", "#", "&", "'", "(", ")", "-", ".", "/">> \o Digits
         \o <<":", ";", "<", "=", ">">> \o Upper \o Lowers

Ord(c) == CHOOSE i \in 1..Len(Ascii) : Ascii[i] = c

\* strings.ToLower, one character
LowerChar(c) ==
    IF \E i \in 1..Len(Upper) : Upper[i] = c
    THEN Lowers[CHOOSE i \in 1..Len(Upper) : Upper[i] = c]
    ELSE c

ToLower(s) == [i \in 1..Len(s) |-> LowerChar(s[i])]

\* strings.Contains
Contains(s, sub) ==
    \E i \in 0..(Len(s) - Len(sub)) :
        \A j \in 1..Len(sub) : s[i + j] = sub[j]

EntLt == <<"&", "l", "t", ";">>
EntGt == <<"&", "g", "t", ";">>
EntAmp == <<"&", "a", "m", "p", ";">>
EntApos == <<"&", "#", "3", "9", ";">>
EntQuot == <<"&", "#", "3", "4", ";">>

\* html.EscapeString, one character
EscapeChar(c) ==
    CASE c = "<" -> EntLt
      [] c = ">" -> EntGt
      [] c = "&" -> EntAmp
      [] c = "'" -> EntApos
      [] c = "\"" -> EntQuot
      [] OTHER -> <<c>>

RECURSIVE EscapeString(_)
EscapeString(s) ==
    IF s = << >> THEN << >> ELSE EscapeChar(Head(s)) \o EscapeString(Tail(s))

\* Byte-wise lexicographic order on strings
RECURSIVE StrLess(_, _)
StrLess(a, b) ==
    IF b = << >> THEN FALSE
    ELSE IF a = << >> THEN TRUE
    ELSE IF a[1] # b[1] THEN Ord(a[1]) < Ord(b[1])
    ELSE StrLess(Tail(a), Tail(b))

\* (a variant that leaves the keys in another order, as a range over the map may)
RECURSIVE KeysDescending(_)
KeysDescending(S) ==
    IF S = {} THEN << >>
    ELSE LET m == CHOOSE x \in S : \A y \in S \ {x} : StrLess(y, x)
         IN  <<m>> \o KeysDescending(S \ {m})

\* sort.Strings over the keys of a map
RECURSIVE SortStrings(_)
SortStrings(S) ==
    IF S = {} THEN << >>
    ELSE LET m == CHOOSE x \in S : \A y \in S \ {x} : StrLess(x, y)
         IN  <<m>> \o SortStrings(S \ {m})

\* strconv.Itoa
RECURSIVE ItoaNat(_)
ItoaNat(n) ==
    IF n < 10 THEN <<Digits[n + 1]>>
    ELSE ItoaNat(n \div 10) \o <<Digits[(n % 10) + 1]>>

Itoa(n) == IF n < 0 THEN <<"-">> \o ItoaNat(-n) ELSE ItoaNat(n)

----------------------------------------------------------------------------
(* Literals of the code *)

StrNone == <<"n", "o", "n", "e">>
StrCurrentColor == <<"c", "u", "r", "r", "e", "n", "t", "C", "o", "l", "o", "r">>
StrDefaultStrokeWidth == <<"1", ".", "5">>
StrXmlnsURI == <<"h", "t", "t", "p", ":", "/", "/", "w", "w", "w", ".", "w", "3", ".",
                 "o", "r", "g", "/", "2", "0", "0", "0", "/", "s", "v", "g">>
KeyXmlns == <<"x", "m", "l", "n", "s">>
KeyViewBox == <<"v", "i", "e", "w", "B", "o", "x">>
KeyWidth == <<"w", "i", "d", "t", "h">>
KeyHeight == <<"h", "e", "i", "g", "h", "t">>
KeyStrokeWidth == <<"s", "t", "r", "o", "k", "e", "-", "w", "i", "d", "t", "h">>
KeyStroke == <<"s", "t", "r", "o", "k", "e">>
KeyFill == <<"f", "i", "l", "l">>
KeyColor == <<"c", "o", "l", "o", "r">>
KeyOnclick == <<"o", "n", "c", "l", "i", "c", "k">>
KeyOnchange == <<"o", "n", "c", "h", "a", "n", "g", "e">>
KeyOnhover == <<"o", "n", "h", "o", "v", "e", "r">>
NeedleScript == <<"<", "s", "c", "r", "i", "p", "t", ">">>
NeedleJavascript == <<"j", "a", "v", "a", "s", "c", "r", "i", "p", "t", ":">>

----------------------------------------------------------------------------
(* helpers.go (and the same functions of icon.go) *)

\* (a variant that knows one box only)
viewBoxAlways24(iconType) == <<"2", "4">>

getViewBoxDimensions(iconType) ==
    CASE iconType = "Mini" -> <<"2", "0">>
      [] iconType = "Micro" -> <<"1", "6">>
      [] OTHER -> <<"2", "4">>

\* The generation "mutex": a fixed attribute string per type, none for other types
getTypeAttributes(iconType) ==
    CASE iconType = "Outline" -> << <<KeyFill, StrNone>>,
                                    <<KeyStrokeWidth, StrDefaultStrokeWidth>>,
                                    <<KeyStroke, StrCurrentColor>> >>
      [] iconType \in {"Solid", "Micro", "Mini"} -> << <<KeyFill, StrCurrentColor>> >>
      [] OTHER -> << >>

\* (a variant that forgets "fill")
reservedWithoutFill ==
    {KeyXmlns, KeyViewBox, KeyWidth, KeyHeight, KeyStrokeWidth, KeyStroke}

reservedSVGAttributes ==
    {KeyXmlns, KeyViewBox, KeyWidth, KeyHeight, KeyStrokeWidth, KeyStroke, KeyFill}

allowedEventAttributes == {KeyOnclick, KeyOnchange, KeyOnhover}

\* (a variant that compares the markers without lower-casing the value)
sanitizeCaseSensitive(key, value) ==
    IF key \in allowedEventAttributes
       /\ (Contains(value, NeedleScript) \/ Contains(value, NeedleJavascript))
    THEN [key |-> << >>, value |-> << >>, ok |-> FALSE]
    ELSE [key |-> EscapeString(key), value |-> EscapeString(value), ok |-> TRUE]

\* The result of sanitizeAttribute: (escapedKey, escapedValue, ok)
sanitizeAttribute(key, value) ==
    IF key \in allowedEventAttributes
       /\ (Contains(ToLower(value), NeedleScript)
           \/ Contains(ToLower(value), NeedleJavascript))
    THEN [key |-> << >>, value |-> << >>, ok |-> FALSE]
    ELSE [key |-> EscapeString(key), value |-> EscapeString(value), ok |-> TRUE]

\* A value of a templ.Attributes map: a string, or something else (a number, a bool)
StrVal(s) == [t |-> "string", s |-> s]
OtherVal == [t |-> "other", s |-> << >>]

\* (a variant that writes a value of any type)
RECURSIVE addAttributesAnyType(_, _)
addAttributesAnyType(keys, attrs) ==
    IF keys = << >> THEN << >>
    ELSE LET key == Head(keys)
             rest == addAttributesAnyType(Tail(keys), attrs)
         IN  IF key \in reservedSVGAttributes THEN rest
             ELSE LET r == sanitizeAttribute(key, attrs[key].s)
                  IN  IF ~r.ok THEN rest
                      ELSE << <<r.key, r.value>> >> \o rest

\* The loop of addAttributesToSVG over the sorted keys: the (key, value) pairs
\* written, each as ` key="value"`
RECURSIVE addAttributesLoop(_, _)
addAttributesLoop(keys, attrs) ==
    IF keys = << >> THEN << >>
    ELSE LET key == Head(keys)
             rest == addAttributesLoop(Tail(keys), attrs)
         IN  IF attrs[key].t # "string" THEN rest
             ELSE IF key \in reservedSVGAttributes THEN rest
             ELSE LET r == sanitizeAttribute(key, attrs[key].s)
                  IN  IF ~r.ok THEN rest
                      ELSE << <<r.key, r.value>> >> \o rest

\* attrs is a map (a function on its key set); a nil map has no keys
addAttributesToSVG(attrs) ==
    IF DOMAIN attrs = {} THEN << >>
    ELSE addAttributesLoop(SortStrings(DOMAIN attrs), attrs)

----------------------------------------------------------------------------
(* What a call returns *)

\* Every result has the same shape: kind is "svg" (attrs: the attributes written
\* into the root tag in order, each as ` key="value"`; body: what follows '>'),
\* "comment" (text: the pieces of the comment), "result" (getIconBody's pair:
\* body and the error text, empty for nil) or "none" (no call returned yet).
NoOut == [kind |-> "none", attrs |-> << >>, body |-> "", text |-> << >>]

\* What a caller that recovers from a panic of the call is left with
PanicOut == [kind |-> "panic", attrs |-> << >>, body |-> "", text |-> << >>]

NilErr == << >>
NotFoundErr(name) == <<"icon '", name, "' not found">>
\* gen "mutex": fmt.Errorf("failed to parse heroicons JSON");
\* gen "once": the same text wrapping json.Unmarshal's error with %w
ParseErr(g) ==
    IF g = "mutex" THEN <<"failed to parse heroicons JSON">>
    ELSE <<"failed to parse heroicons JSON", ": ", "json error">>

\* (a variant whose comment leaves the error text out)
errorSVGCommentGeneric(err) ==
    [kind |-> "comment", attrs |-> << >>, body |-> "",
     text |-> <<"<!-- Error: ", "icon not found", " -->">>]

errorSVGComment(err) ==
    [kind |-> "comment", attrs |-> << >>, body |-> "",
     text |-> <<"<!-- Error: ">> \o err \o <<" -->">>]

GetResult(body, err) ==
    [kind |-> "result", attrs |-> << >>, body |-> body, text |-> err]

ViewBoxValue(d) == <<"0", " ", "0", " ">> \o d \o <<" ">> \o d

\* (a variant that writes the color attribute after the extra attributes)
makeSVGTagColorLast(icon, attrs) ==
    [kind |-> "svg",
     attrs |-> << <<KeyXmlns, StrXmlnsURI>>,
                  <<KeyWidth, icon.Size>>,
                  <<KeyHeight, icon.Size>>,
                  <<KeyViewBox, ViewBoxValue(getViewBoxDimensions(icon.Type))>> >>
               \o getTypeAttributes(icon.Type)
               \o addAttributesToSVG(attrs)
               \o (IF icon.Color # << >> THEN << <<KeyColor, icon.Color>> >> ELSE << >>),
     body |-> icon.body,
     text |-> << >>]

\* makeSVGTag after fetchBody succeeded (gen "mutex")
makeSVGTag(icon, attrs) ==
    [kind |-> "svg",
     attrs |-> << <<KeyXmlns, StrXmlnsURI>>,
                  <<KeyWidth, icon.Size>>,
                  <<KeyHeight, icon.Size>>,
                  <<KeyViewBox, ViewBoxValue(getViewBoxDimensions(icon.Type))>> >>
               \o getTypeAttributes(icon.Type)
               \o (IF icon.Color # << >> THEN << <<KeyColor, icon.Color>> >> ELSE << >>)
               \o addAttributesToSVG(attrs),
     body |-> icon.body,
     text |-> << >>]

\* Icon.String after the body is resolved (gen "once"); getViewBox is
\* getViewBoxDimensions under its older name
String(icon, attrs) ==
    [kind |-> "svg",
     attrs |-> << <<KeyXmlns, StrXmlnsURI>>,
                  <<KeyWidth, icon.Size>>,
                  <<KeyHeight, icon.Size>>,
                  <<KeyViewBox, ViewBoxValue(getViewBoxDimensions(icon.Type))>> >>
               \o (CASE icon.Type = "Outline" ->
                          << <<KeyFill, StrNone>>,
                             <<KeyStrokeWidth, icon.StrokeWidth>>,
                             <<KeyStroke, icon.Stroke>> >>
                      [] icon.Type \in {"Solid", "Mini", "Micro"} ->
                          << <<KeyFill, icon.Fill>> >>
                      [] OTHER ->
                          << <<KeyFill, icon.Fill>>,
                             <<KeyStrokeWidth, icon.StrokeWidth>>,
                             <<KeyStroke, icon.Stroke>> >>)
               \o addAttributesToSVG(attrs),
     body |-> icon.body,
     text |-> << >>]

\* Variant: a stroke that is already set is reset
ensureDefaultsResetting(icon) ==
    [icon EXCEPT
        !.Fill = IF icon.Fill # << >> THEN icon.Fill
                 ELSE IF icon.Type = "Outline" THEN StrNone ELSE StrCurrentColor,
        !.Stroke = IF icon.Stroke # << >> THEN StrNone ELSE StrCurrentColor,
        !.StrokeWidth = IF icon.StrokeWidth # << >> THEN icon.StrokeWidth
                        ELSE StrDefaultStrokeWidth]

\* Icon.ensureDefaults (gen "once")
ensureDefaults(icon) ==
    [icon EXCEPT
        !.Fill = IF icon.Fill # << >> THEN icon.Fill
                 ELSE IF icon.Type = "Outline" THEN StrNone ELSE StrCurrentColor,
        !.Stroke = IF icon.Stroke # << >> THEN icon.Stroke ELSE StrCurrentColor,
        !.StrokeWidth = IF icon.StrokeWidth # << >> THEN icon.StrokeWidth
                        ELSE StrDefaultStrokeWidth]

----------------------------------------------------------------------------
(* Bounds, the dataset and the heap *)

NProcs == 2         \* goroutines calling into the package
MaxDecodes == 2     \* no new call starts once the dataset was decoded this often
MaxIcons == 2       \* Icon structs on the heap
MaxMaps == 3        \* templ.Attributes maps on the heap
MaxBuilders == 1    \* IconBuilder values
MaxCalls == 4       \* statements of the configuring caller

Procs == 1..NProcs
Gens == {"mutex", "once"}
\* The bundled file: holds icons, parses but holds none, does not parse, or
\* cannot be opened (heroiconsJSONSource is a variable of type fs.FS)
DatasetKinds == {"valid", "noicons", "invalid", "missing"}

\* The datasets whose parse succeeds
ParsedKinds == {"valid", "noicons"}

\* The icons mapping of a valid bundled dataset, in document order
DatasetIcons == << <<"moon", "B_moon">>, <<"sun", "B_sun">> >>

\* name -> body, as the decode of the dataset yields it
DatasetBodies(kind) ==
    IF kind = "valid"
    THEN [n \in {DatasetIcons[i][1] : i \in 1..Len(DatasetIcons)} |->
            DatasetIcons[CHOOSE i \in 1..Len(DatasetIcons) : DatasetIcons[i][1] = n][2]]
    ELSE << >>

EmptyMap == << >>

\* An Icon struct; Attrs is the address of its map (0: nil).  from is not a field
\* of the struct: it notes the Icon this one was copied from (0: a template).
Icon(name, type, size, attrs) ==
    [Name |-> name, Type |-> type, Size |-> size, Color |-> << >>,
     Stroke |-> << >>, StrokeWidth |-> << >>, Fill |-> << >>,
     Attrs |-> attrs, body |-> "", from |-> 0]

\* The map an Icon's Attrs refers to
AttrsOf(a) == IF icons[a].Attrs = 0 THEN EmptyMap ELSE attrMaps[icons[a].Attrs]

\* The record a render is called on, as the call finds it: its exported fields
\* and the content of its Attrs map
Snapshot(a) ==
    [Name |-> icons[a].Name, Type |-> icons[a].Type, Size |-> icons[a].Size,
     Color |-> icons[a].Color, Stroke |-> icons[a].Stroke,
     StrokeWidth |-> icons[a].StrokeWidth, Fill |-> icons[a].Fill,
     Attrs |-> AttrsOf(a)]

NoSnapshot ==
    [Name |-> "", Type |-> "", Size |-> << >>, Color |-> << >>, Stroke |-> << >>,
     StrokeWidth |-> << >>, Fill |-> << >>, Attrs |-> << >>]

\* A goroutine's locals, and two notes about its current or last call: cold (it
\* started before any decode of the dataset had been made) and decoded (it ran
\* the open, read and parse of the dataset itself); seen is the record a render
\* was called on
IdleFrame == [op |-> "none", icon |-> 0, name |-> "", body |-> "", todo |-> {},
              cold |-> FALSE, decoded |-> FALSE, seen |-> NoSnapshot]

----------------------------------------------------------------------------
(* The generator's download of the dataset (the program listed in the README) *)

maxRetries == 3

\* A nil error, and a nil []byte
NoError == "nil"
NoData == ""

\* fmt.Errorf("attempt %d: %w", attempt, err)
AttemptErr(attempt, err) == <<"attempt ", attempt, ": ", err>>

\* The cache file: absent, or with a content and a modification time that is
\* less than maxAge ago or not
NoFile == [exists |-> FALSE, fresh |-> FALSE, content |-> NoData]

\* Nothing has been fetched: at is the position inside fetchAndCacheDataset /
\* fetchDatasetWithRetry, log the HTTP attempts and the sleeps of the current
\* fetchDatasetWithRetry call, ret what that call returned, result what
\* fetchAndCacheDataset returned
NoFetch == [at |-> "idle", attempt |-> 0, lastErr |-> NoError, log |-> << >>,
            ret |-> [data |-> NoData, err |-> NoError],
            result |-> [data |-> NoData, err |-> NoError],
            cache |-> NoFile, runs |-> 0]

----------------------------------------------------------------------------
(* Render (makeSVGTag / Icon.String) and getIconBody, statement by statement *)

\* A goroutine enters icon.Render() (gen "once": icon.String()); seen is what
\* the caller notes of the record it passes
EnterRender(p, a, seen) ==
    /\ pc[p] = "idle"
    /\ a \in DOMAIN icons
    /\ decodes < MaxDecodes
    /\ frame' = [frame EXCEPT ![p] = [IdleFrame EXCEPT !.op = "render", !.icon = a,
                                                        !.cold = (decodes = 0),
                                                        !.seen = seen]]
    /\ pc' = [pc EXCEPT ![p] = IF gen = "mutex" THEN "fetchBody" ELSE "ensureDefaults"]
    /\ out' = [out EXCEPT ![p] = NoOut]
    /\ UNCHANGED <<fetch, gen, datasetKind, icons, attrMaps, builders, held, iconBodyCache,
                   cacheMutex, iconDataOnce, iconMu, decodes>>

StartRender(p, a) == EnterRender(p, a, NoSnapshot)

\* A goroutine calls icon.Render()
CallRender(p, a) == StartRender(p, a) /\ UNCHANGED calls

\* A goroutine calls getIconBody(name)
CallGetIconBody(p, n) ==
    /\ pc[p] = "idle"
    /\ decodes < MaxDecodes
    /\ frame' = [frame EXCEPT ![p] = [IdleFrame EXCEPT !.op = "get", !.name = n,
                                                        !.cold = (decodes = 0)]]
    /\ pc' = [pc EXCEPT ![p] = IF gen = "mutex" THEN "lock" ELSE "onceDo"]
    /\ out' = [out EXCEPT ![p] = NoOut]
    /\ UNCHANGED <<fetch, gen, datasetKind, icons, attrMaps, builders, held, iconBodyCache,
                   cacheMutex, iconDataOnce, iconMu, decodes, calls>>

\* (a variant that resolves the body whether or not the record has one)
FetchBodyAlways(p) ==
    /\ pc[p] = "fetchBody"
    /\ pc' = [pc EXCEPT ![p] = "lock"]
    /\ frame' = [frame EXCEPT ![p].name = icons[frame[p].icon].Name]
    /\ UNCHANGED <<fetch, gen, datasetKind, icons, attrMaps, builders, held, iconBodyCache,
                   cacheMutex, iconDataOnce, iconMu, decodes, out, calls>>

\* Icon.fetchBody, its test of i.body (gen "mutex")
FetchBody(p) ==
    /\ pc[p] = "fetchBody"
    /\ LET a == frame[p].icon
       IN  IF icons[a].body # ""
           THEN /\ pc' = [pc EXCEPT ![p] = "emit"]
                /\ frame' = frame
           ELSE /\ pc' = [pc EXCEPT ![p] = "lock"]
                /\ frame' = [frame EXCEPT ![p].name = icons[a].Name]
    /\ UNCHANGED <<fetch, gen, datasetKind, icons, attrMaps, builders, held, iconBodyCache,
                   cacheMutex, iconDataOnce, iconMu, decodes, out, calls>>

\* Icon.ensureDefaults at the head of Icon.String (gen "once")
EnsureDefaults(p) ==
    /\ pc[p] = "ensureDefaults"
    /\ icons' = [icons EXCEPT ![frame[p].icon] = ensureDefaults(@)]
    /\ pc' = [pc EXCEPT ![p] = "bodyCheck"]
    /\ UNCHANGED <<fetch, gen, datasetKind, attrMaps, builders, held, iconBodyCache,
                   cacheMutex, iconDataOnce, iconMu, decodes, frame, out, calls>>

\* Icon.String, the first test of i.body, outside i.mu (gen "once")
BodyCheck(p) ==
    /\ pc[p] = "bodyCheck"
    /\ pc' = [pc EXCEPT ![p] = IF icons[frame[p].icon].body # "" THEN "emit"
                                ELSE "lockIcon"]
    /\ UNCHANGED <<fetch, gen, datasetKind, icons, attrMaps, builders, held, iconBodyCache,
                   cacheMutex, iconDataOnce, iconMu, decodes, frame, out, calls>>

\* i.mu.Lock() (gen "once"); the unlock is deferred to the return of String
LockIcon(p) ==
    /\ pc[p] = "lockIcon"
    /\ iconMu[frame[p].icon] = 0
    /\ iconMu' = [iconMu EXCEPT ![frame[p].icon] = p]
    /\ pc' = [pc EXCEPT ![p] = "recheck"]
    /\ UNCHANGED <<fetch, gen, datasetKind, icons, attrMaps, builders, held, iconBodyCache,
                   cacheMutex, iconDataOnce, decodes, frame, out, calls>>

\* Icon.String, the second test of i.body, under i.mu (gen "once")
Recheck(p) ==
    /\ pc[p] = "recheck"
    /\ LET a == frame[p].icon
       IN  IF icons[a].body # ""
           THEN /\ pc' = [pc EXCEPT ![p] = "emit"]
                /\ frame' = frame
           ELSE /\ pc' = [pc EXCEPT ![p] = "onceDo"]
                /\ frame' = [frame EXCEPT ![p].name = icons[a].Name]
    /\ UNCHANGED <<fetch, gen, datasetKind, icons, attrMaps, builders, held, iconBodyCache,
                   cacheMutex, iconDataOnce, iconMu, decodes, out, calls>>

\* i.mu after the deferred Unlock of goroutine p, if p locked it
Unlocked(p) == [a \in DOMAIN iconMu |-> IF iconMu[a] = p THEN 0 ELSE iconMu[a]]

\* getIconBody returns (body, err) to its caller: to the goroutine itself, or to
\* fetchBody / String, which on an error return the comment at once (dec: the
\* returning statement is the failed parse)
Return(p, body, err, dec) ==
    /\ pc' = [pc EXCEPT ![p] = IF frame[p].op = "render" /\ err = NilErr
                                THEN "storeBody" ELSE "idle"]
    /\ frame' = [frame EXCEPT ![p].body = body, ![p].todo = {},
                              ![p].decoded = @ \/ dec]
    /\ out' = [out EXCEPT ![p] =
                 IF frame[p].op = "get" THEN GetResult(body, err)
                 ELSE IF err # NilErr THEN errorSVGComment(err)
                 ELSE @]
    /\ iconMu' = IF frame[p].op = "render" /\ err # NilErr THEN Unlocked(p) ELSE iconMu

\* Open fails and its error is dropped, so heroiconsData is a nil fs.File and
\* "defer heroiconsData.Close()" panics with a nil dereference.  The panic
\* unwinds the call: the deferred unlocks run (Once.Do counts a panicking load as
\* done) and whoever recovers sees no result
Panic(p) ==
    /\ pc' = [pc EXCEPT ![p] = "idle"]
    /\ frame' = [frame EXCEPT ![p].body = "", ![p].todo = {}, ![p].decoded = TRUE]
    /\ out' = [out EXCEPT ![p] = PanicOut]
    /\ iconMu' = Unlocked(p)

\* (a variant that does not wait for the holder)
LockWithoutWaiting(p) ==
    /\ pc[p] = "lock"
    /\ cacheMutex' = p
    /\ pc' = [pc EXCEPT ![p] = "check"]
    /\ UNCHANGED <<fetch, gen, datasetKind, icons, attrMaps, builders, held, iconBodyCache,
                   iconDataOnce, iconMu, decodes, frame, out, calls>>

\* cacheMutex.Lock() (gen "mutex"); the unlock is deferred to the return
Lock(p) ==
    /\ pc[p] = "lock"
    /\ cacheMutex = 0
    /\ cacheMutex' = p
    /\ pc' = [pc EXCEPT ![p] = "check"]
    /\ UNCHANGED <<fetch, gen, datasetKind, icons, attrMaps, builders, held, iconBodyCache,
                   iconDataOnce, iconMu, decodes, frame, out, calls>>

\* "Check if the body is already cached" (gen "mutex")
CheckCache(p) ==
    /\ pc[p] = "check"
    /\ IF frame[p].name \in DOMAIN iconBodyCache
       THEN /\ Return(p, iconBodyCache[frame[p].name], NilErr, FALSE)
            /\ cacheMutex' = 0
       ELSE /\ pc' = [pc EXCEPT ![p] = "decode"]
            /\ UNCHANGED <<cacheMutex, frame, out, iconMu>>
    /\ UNCHANGED <<fetch, gen, datasetKind, icons, attrMaps, builders, held, iconBodyCache,
                   iconDataOnce, decodes, calls>>

\* iconDataOnce.Do (gen "once"): the first caller runs the load, a caller that
\* arrives while it runs waits, a later caller skips it
OnceDo(p) ==
    /\ pc[p] = "onceDo"
    /\ iconDataOnce # "running"
    /\ IF iconDataOnce = "done"
       THEN /\ pc' = [pc EXCEPT ![p] = "lookup"]
            /\ UNCHANGED <<iconDataOnce, iconBodyCache>>
       ELSE /\ iconDataOnce' = "running"
            /\ iconBodyCache' = EmptyMap
            /\ pc' = [pc EXCEPT ![p] = "decode"]
    /\ UNCHANGED <<fetch, gen, datasetKind, icons, attrMaps, builders, held,
                   cacheMutex, iconMu, decodes, frame, out, calls>>

\* (a variant that takes a document without the icons key for one that does not
\* parse)
DecodeRequiringIcons(p) ==
    /\ pc[p] = "decode"
    /\ decodes' = decodes + 1
    /\ IF datasetKind = "missing"
       THEN /\ Panic(p)
            /\ cacheMutex' = 0
            /\ iconDataOnce' = IF gen = "once" THEN "done" ELSE iconDataOnce
       ELSE IF datasetKind \in {"invalid", "noicons"}
       THEN /\ Return(p, "", ParseErr(gen), TRUE)
            /\ cacheMutex' = 0
            /\ iconDataOnce' = IF gen = "once" THEN "done" ELSE iconDataOnce
       ELSE /\ frame' = [frame EXCEPT ![p].todo = DOMAIN DatasetBodies(datasetKind),
                                      ![p].decoded = TRUE]
            /\ pc' = [pc EXCEPT ![p] = "populate"]
            /\ UNCHANGED <<cacheMutex, iconDataOnce, out, iconMu>>
    /\ UNCHANGED <<fetch, gen, datasetKind, icons, attrMaps, builders, held, iconBodyCache, calls>>

\* Open, ReadAll and the parse (gjson.ValidBytes, resp. json.Unmarshal)
Decode(p) ==
    /\ pc[p] = "decode"
    /\ decodes' = decodes + 1
    /\ IF datasetKind = "missing"
       THEN /\ Panic(p)
            /\ cacheMutex' = 0
            /\ iconDataOnce' = IF gen = "once" THEN "done" ELSE iconDataOnce
       ELSE IF datasetKind = "invalid"
       THEN /\ Return(p, "", ParseErr(gen), TRUE)
            /\ cacheMutex' = 0
            /\ iconDataOnce' = IF gen = "once" THEN "done" ELSE iconDataOnce
       ELSE /\ frame' = [frame EXCEPT ![p].todo = DOMAIN DatasetBodies(datasetKind),
                                      ![p].decoded = TRUE]
            /\ pc' = [pc EXCEPT ![p] = "populate"]
            /\ UNCHANGED <<cacheMutex, iconDataOnce, out, iconMu>>
    /\ UNCHANGED <<fetch, gen, datasetKind, icons, attrMaps, builders, held, iconBodyCache, calls>>

\* The entries the populating loop may take next: gjson's ForEach goes in
\* document order, a range over the unmarshalled Go map in any order
NextEntries(todo) ==
    IF gen = "once" THEN todo
    ELSE {n \in todo : \A i, j \in 1..Len(DatasetIcons) :
            (DatasetIcons[i][1] = n /\ DatasetIcons[j][1] \in todo) => i <= j}

\* (a variant that caches the requested entry alone)
PopulateRequestedOnly(p) ==
    /\ pc[p] = "populate"
    /\ IF frame[p].todo = {}
       THEN /\ pc' = [pc EXCEPT ![p] = "lookup"]
            /\ iconDataOnce' = IF gen = "once" THEN "done" ELSE iconDataOnce
            /\ UNCHANGED <<iconBodyCache, frame>>
       ELSE /\ iconBodyCache' =
                 IF frame[p].name \in frame[p].todo
                 THEN (frame[p].name :> DatasetBodies(datasetKind)[frame[p].name])
                          @@ iconBodyCache
                 ELSE iconBodyCache
            /\ frame' = [frame EXCEPT ![p].todo = {}]
            /\ UNCHANGED <<pc, iconDataOnce>>
    /\ UNCHANGED <<fetch, gen, datasetKind, icons, attrMaps, builders, held,
                   cacheMutex, iconMu, decodes, out, calls>>

\* One iteration of the loop that fills the cache, or its end
Populate(p) ==
    /\ pc[p] = "populate"
    /\ IF frame[p].todo = {}
       THEN /\ pc' = [pc EXCEPT ![p] = "lookup"]
            /\ iconDataOnce' = IF gen = "once" THEN "done" ELSE iconDataOnce
            /\ UNCHANGED <<iconBodyCache, frame>>
       ELSE /\ \E n \in NextEntries(frame[p].todo) :
                 /\ iconBodyCache' = (n :> DatasetBodies(datasetKind)[n]) @@ iconBodyCache
                 /\ frame' = [frame EXCEPT ![p].todo = @ \ {n}]
            /\ UNCHANGED <<pc, iconDataOnce>>
    /\ UNCHANGED <<fetch, gen, datasetKind, icons, attrMaps, builders, held,
                   cacheMutex, iconMu, decodes, out, calls>>

\* (a variant that reads the map without testing for presence)
LookupWithoutExists(p) ==
    /\ pc[p] = "lookup"
    /\ IF frame[p].name \in DOMAIN iconBodyCache
       THEN Return(p, iconBodyCache[frame[p].name], NilErr, FALSE)
       ELSE Return(p, "", NilErr, FALSE)
    /\ cacheMutex' = IF gen = "mutex" THEN 0 ELSE cacheMutex
    /\ UNCHANGED <<fetch, gen, datasetKind, icons, attrMaps, builders, held, iconBodyCache,
                   iconDataOnce, decodes, calls>>

\* "Lookup the icon body" and return
Lookup(p) ==
    /\ pc[p] = "lookup"
    /\ IF frame[p].name \in DOMAIN iconBodyCache
       THEN Return(p, iconBodyCache[frame[p].name], NilErr, FALSE)
       ELSE Return(p, "", NotFoundErr(frame[p].name), FALSE)
    /\ cacheMutex' = IF gen = "mutex" THEN 0 ELSE cacheMutex
    /\ UNCHANGED <<fetch, gen, datasetKind, icons, attrMaps, builders, held, iconBodyCache,
                   iconDataOnce, decodes, calls>>

\* i.body = body
StoreBody(p) ==
    /\ pc[p] = "storeBody"
    /\ icons' = [icons EXCEPT ![frame[p].icon].body = frame[p].body]
    /\ pc' = [pc EXCEPT ![p] = "emit"]
    /\ UNCHANGED <<fetch, gen, datasetKind, attrMaps, builders, held, iconBodyCache,
                   cacheMutex, iconDataOnce, iconMu, decodes, frame, out, calls>>

\* The tag is written and returned
Emit(p) ==
    /\ pc[p] = "emit"
    /\ LET a == frame[p].icon
       IN  out' = [out EXCEPT ![p] = IF gen = "mutex"
                                     THEN makeSVGTag(icons[a], AttrsOf(a))
                                     ELSE String(icons[a], AttrsOf(a))]
    /\ iconMu' = Unlocked(p)
    /\ pc' = [pc EXCEPT ![p] = "idle"]
    /\ UNCHANGED <<fetch, gen, datasetKind, icons, attrMaps, builders, held, iconBodyCache,
                   cacheMutex, iconDataOnce, decodes, frame, calls>>

Step(p) ==
    \/ FetchBody(p)
    \/ EnsureDefaults(p)
    \/ BodyCheck(p)
    \/ LockIcon(p)
    \/ Recheck(p)
    \/ Lock(p)
    \/ CheckCache(p)
    \/ OnceDo(p)
    \/ Decode(p)
    \/ Populate(p)
    \/ Lookup(p)
    \/ StoreBody(p)
    \/ Emit(p)

----------------------------------------------------------------------------
(* Spec: goroutines render two shared template icons and resolve names *)

SharedNames == {"sun", ""}

InitShared ==
    /\ gen \in Gens
    /\ datasetKind \in DatasetKinds
    /\ icons = (1 :> Icon("moon", "Outline", <<"2", "4">>, 0))
                @@ (2 :> Icon("ghost", "Solid", <<"2", "4">>, 0))
    /\ attrMaps = << >>
    /\ builders = << >>
    /\ held = {}
    /\ iconBodyCache = EmptyMap
    /\ cacheMutex = 0
    /\ iconDataOnce = "fresh"
    /\ iconMu = [a \in {1, 2} |-> 0]
    /\ decodes = 0
    /\ pc = [p \in Procs |-> "idle"]
    /\ frame = [p \in Procs |-> IdleFrame]
    /\ out = [p \in Procs |-> NoOut]
    /\ calls = 0
    /\ fetch = NoFetch

Next ==
    \/ \E p \in Procs, a \in {1, 2} : CallRender(p, a)
    \/ \E p \in Procs, n \in SharedNames : CallGetIconBody(p, n)
    \/ \E p \in Procs : Step(p)

Spec == InitShared /\ [][Next]_vars

----------------------------------------------------------------------------
(* Concurrent first use of the cache *)

\* Goroutine p is about to read the cache mapping
ReadsCache(p) == pc[p] \in {"check", "lookup"}

\* Goroutine p is inside the load: past the cache miss (resp. inside Once.Do),
\* before the end of the populating loop
InLoad(p) == pc[p] \in {"decode", "populate"}

\* p's call has returned the pair (body, err)
Returned(p, body, err) ==
    /\ pc[p] = "idle"
    /\ frame[p].op = "get"
    /\ out[p] = GetResult(body, err)

\* C2: of the getIconBody calls (direct or from a render) that start before any
\* decode of the dataset, at most one opens and decodes the dataset: no two
\* goroutines have both started such a call and both decoded in it.  Stated for
\* a dataset that parses, the case the claim has least to fear from.
C2_DecodedAtMostOnce ==
    \A p, q \in Procs :
        (datasetKind = "valid" /\ p # q /\ frame[p].cold /\ frame[q].cold)
            => ~(frame[p].decoded /\ frame[q].decoded)

\* C3: no goroutine is about to read the cache mapping while another is inside
\* the load, and with a valid dataset a call for a name of the dataset never
\* returns NotFound or another body than the dataset's, to a direct caller or to
\* a render.
C3_NoPartialCache ==
    /\ \A p, q \in Procs : p # q => ~(ReadsCache(p) /\ InLoad(q))
    /\ \A p \in Procs :
        (datasetKind = "valid" /\ frame[p].name \in DOMAIN DatasetBodies("valid"))
            => /\ (pc[p] = "idle" /\ frame[p].op = "get" /\ out[p] # NoOut)
                    => out[p] = GetResult(DatasetBodies("valid")[frame[p].name], NilErr)
               /\ (pc[p] = "storeBody")
                    => frame[p].body = DatasetBodies("valid")[frame[p].name]
               /\ (pc[p] = "idle" /\ frame[p].op = "render") => out[p].kind # "comment"

\* C3's case: a call that started before the first decode, did not decode itself
\* and answered with the dataset's body from the cache another call filled.
C3_Witness ==
    \E p \in Procs :
        /\ datasetKind = "valid"
        /\ frame[p].cold
        /\ ~frame[p].decoded
        /\ frame[p].name = "sun"
        /\ Returned(p, "B_sun", NilErr)

----------------------------------------------------------------------------
(* Accesses to the fields of an Icon *)

\* The fields of an Icon the statement goroutine p is at will read
ReadsFields(p) ==
    CASE pc[p] \in {"fetchBody", "bodyCheck", "recheck"} -> {"body"}
      [] pc[p] = "ensureDefaults" -> {"Type", "Fill", "Stroke", "StrokeWidth"}
      [] pc[p] = "emit" /\ gen = "mutex" -> {"Type", "Size", "Color", "Attrs", "body"}
      [] pc[p] = "emit" /\ gen = "once" ->
            {"Type", "Size", "Fill", "Stroke", "StrokeWidth", "Attrs", "body"}
      [] OTHER -> {}

\* The fields of an Icon the statement goroutine p is at will write
WritesFields(p) ==
    CASE pc[p] = "storeBody" -> {"body"}
      [] pc[p] = "ensureDefaults" ->
            {f \in {"Fill", "Stroke", "StrokeWidth"} : icons[frame[p].icon][f] = << >>}
      [] OTHER -> {}

\* The locks goroutine p holds
LocksHeld(p) ==
    (IF cacheMutex = p THEN {<<"cacheMutex", 0>>} ELSE {})
    \cup {<<"mu", a>> : a \in {b \in DOMAIN iconMu : iconMu[b] = p}}

\* Two goroutines are at statements that access the same field of the same
\* Icon, one of them writing, and hold no lock in common
Race(p, q) ==
    /\ p # q
    /\ frame[p].op = "render" /\ frame[q].op = "render"
    /\ frame[p].icon = frame[q].icon
    /\ WritesFields(p) \cap (ReadsFields(q) \cup WritesFields(q)) # {}
    /\ LocksHeld(p) \cap LocksHeld(q) = {}

\* C4: concurrent renders of one Icon are race-free: no field of the record is
\* written by one render while another reads or writes it without a common lock.
C4_RenderRaceFree == \A p, q \in Procs : ~Race(p, q)

----------------------------------------------------------------------------
(* SpecRender: one goroutine renders one Icon drawn from the input sets *)

KeyAriaHidden == <<"a", "r", "i", "a", "-", "h", "i", "d", "d", "e", "n">>
KeyClass == <<"c", "l", "a", "s", "s">>
KeyDataCount == <<"d", "a", "t", "a", "-", "c", "o", "u", "n", "t">>
KeyNasty == <<"a", "\"", "b">>
ValTrue == <<"t", "r", "u", "e">>
ValRed == <<"r", "e", "d">>
ValCall == <<"f", "(", ")">>
ValScript == <<"x", "<", "s", "c", "r", "i", "p", "t", ">">>
ValScriptMixed == <<"<", "S", "c", "R", "i", "p", "T", ">">>
ValJsUrl == <<"J", "a", "v", "a", "S", "c", "r", "i", "p", "t", ":", "x">>
ValBreakout == <<"\"", ">", "<", "b">>
ValAmp == <<"a", "&", "b">>
SizeNasty == <<"1", "\"", ">">>

Types == {"Outline", "Solid", "Mini", "Micro", "Duotone"}
RenderNames == {"moon", "ghost", ""}
RenderSizes == {<<"2", "4">>, <<"3", "2">>, SizeNasty}
RenderColors == {<< >>, ValRed, ValBreakout}
RenderStrokes == {<< >>, ValBreakout}
RenderStrokeWidths == {<< >>, <<"2">>}
RenderFills == {<< >>, ValRed, ValBreakout}
RenderBodies == {"", "B_own"}

\* The templ.Attributes maps the rendered Icon may carry
AttrPool ==
    << (KeyAriaHidden :> StrVal(ValTrue)) @@ (KeyFill :> StrVal(ValRed)),
       [k \in reservedSVGAttributes \cup {KeyClass} |-> StrVal(ValRed)],
       (KeyOnclick :> StrVal(ValJsUrl)) @@ (KeyClass :> StrVal(ValJsUrl)),
       (KeyOnclick :> StrVal(ValScriptMixed)) @@ (KeyOnhover :> StrVal(ValCall))
            @@ (KeyOnchange :> StrVal(ValScript)) @@ (KeyAriaHidden :> StrVal(ValScript)),
       (KeyNasty :> StrVal(ValBreakout)) @@ (KeyClass :> StrVal(ValAmp)),
       (KeyDataCount :> OtherVal) @@ (KeyAriaHidden :> StrVal(ValTrue)),
       (KeyColor :> StrVal(ValRed)) @@ (KeyClass :> StrVal(ValTrue)),
       EmptyMap >>

InitRender ==
    /\ gen \in Gens
    /\ datasetKind \in DatasetKinds
    /\ \E n \in RenderNames, t \in Types, sz \in RenderSizes, b \in RenderBodies,
          c \in RenderColors, st \in RenderStrokes, sw \in RenderStrokeWidths,
          f \in RenderFills, m \in 0..Len(AttrPool) :
          /\ gen = "mutex" => (st = << >> /\ sw = << >> /\ f = << >>)
          /\ gen = "once" => c = << >>
          /\ icons = (1 :> [Icon(n, t, sz, IF m = 0 THEN 0 ELSE 1) EXCEPT
                                !.Color = c, !.Stroke = st, !.StrokeWidth = sw,
                                !.Fill = f, !.body = b])
          /\ attrMaps = IF m = 0 THEN << >> ELSE (1 :> AttrPool[m])
    /\ builders = << >>
    /\ held = {}
    /\ iconBodyCache = EmptyMap
    /\ cacheMutex = 0
    /\ iconDataOnce = "fresh"
    /\ iconMu = [a \in {1} |-> 0]
    /\ decodes = 0
    /\ pc = [p \in Procs |-> "idle"]
    /\ frame = [p \in Procs |-> IdleFrame]
    /\ out = [p \in Procs |-> NoOut]
    /\ calls = 0
    /\ fetch = NoFetch

NextRender ==
    \/ CallRender(1, 1)
    \/ Step(1)

SpecRender == InitRender /\ [][NextRender]_vars

\* Goroutine 1's render of Icon 1 has returned
Rendered == pc[1] = "idle" /\ frame[1].op = "render"

\* The attributes of the returned tag named key, in order
Named(tag, key) == SelectSeq(tag.attrs, LAMBDA kv : kv[1] = key)

\* The keys the specification reserves
SpecReservedKeys ==
    {KeyXmlns, KeyViewBox, KeyWidth, KeyHeight, KeyStrokeWidth, KeyStroke, KeyFill}

\* What the renderer writes for a reserved key on its own: the tag of the same
\* Icon without extra attributes
OwnTag == IF gen = "mutex" THEN makeSVGTag(icons[1], EmptyMap)
          ELSE String(icons[1], EmptyMap)

\* C7: whatever the attrs mapping holds under a reserved key, the rendered tag
\* carries for that key exactly what the renderer writes on its own, so no attrs
\* entry with a reserved key is emitted.
C7_ReservedNeverEmitted ==
    (Rendered /\ out[1].kind = "svg")
        => \A k \in SpecReservedKeys : Named(out[1], k) = Named(OwnTag, k)

\* C7's example: an Outline record with attrs {aria-hidden: true, fill: red}
\* rendered fill="none" and aria-hidden="true".
C7_Witness ==
    /\ Rendered /\ out[1].kind = "svg"
    /\ icons[1].Type = "Outline"
    /\ AttrsOf(1) = AttrPool[1]
    /\ Named(out[1], KeyFill) = << <<KeyFill, StrNone>> >>
    /\ Named(out[1], KeyAriaHidden) = << <<KeyAriaHidden, ValTrue>> >>

\* s contains the marker in some letter case
ContainsAnyCase(s, marker) ==
    \E i \in 0..(Len(s) - Len(marker)) :
        \A j \in 1..Len(marker) : LowerChar(s[i + j]) = marker[j]

UnsafeValue(v) ==
    ContainsAnyCase(v, NeedleScript) \/ ContainsAnyCase(v, NeedleJavascript)

SpecEventKeys == {KeyOnclick, KeyOnchange, KeyOnhover}

\* The tag has the attribute key="value"
Has(tag, key, value) == \E i \in 1..Len(tag.attrs) : tag.attrs[i] = <<key, value>>

RawMarkup(s) == \E i \in 1..Len(s) : s[i] \in {"\"", "<", ">"}

\* C9: nothing is written into the root tag with a raw double quote, '<' or '>'
\* (stated for a record whose size holds none of them, as every size set through
\* SetSize does).
C9_InjectionSafe ==
    (Rendered /\ out[1].kind = "svg" /\ ~RawMarkup(icons[1].Size))
        => \A i \in 1..Len(out[1].attrs) :
              ~RawMarkup(out[1].attrs[i][1]) /\ ~RawMarkup(out[1].attrs[i][2])

\* C10: the render of a record with no body whose name the (parsed) dataset does
\* not hold returns exactly the comment naming it, and no tag.
C10_NotFoundComment ==
    (/\ Rendered
     /\ icons[1].body = ""
     /\ datasetKind \in ParsedKinds
     /\ icons[1].Name \notin DOMAIN DatasetBodies(datasetKind))
        => out[1] = [kind |-> "comment", attrs |-> << >>, body |-> "",
                     text |-> <<"<!-- Error: ", "icon '", icons[1].Name,
                                "' not found", " -->">>]

\* C10's case: the render of "ghost" against a valid dataset returned the comment.
C10_Witness ==
    /\ Rendered
    /\ datasetKind = "valid"
    /\ icons[1].Name = "ghost" /\ icons[1].body = ""
    /\ out[1].kind = "comment"
    /\ out[1].text[3] = "ghost"

----------------------------------------------------------------------------
(* The builder, the clones and the caller's own writes to an Attrs map *)

NextIcon == Cardinality(DOMAIN icons) + 1
NextMap == Cardinality(DOMAIN attrMaps) + 1

\* An IconBuilder: icon is the address of its Icon.  of and built are not fields
\* of the struct: the template it was obtained from, and the addresses that
\* Build / GetIcon have returned.
Builder(a, t) == [icon |-> a, of |-> t, built |-> {}]

\* The Icons the caller has a pointer to: the template and what it got back
Callable == {1} \cup held

\* The caller runs one statement at a time
CallerIdle == \A p \in Procs : pc[p] = "idle"

\* One more statement of the caller
Tick == calls < MaxCalls /\ calls' = calls + 1

\* Icon.clone of gen "mutex": a new Icon with a copy of the attrs map (make and
\* a loop over i.Attrs, so the copy of a nil map is an empty map) and the body
cloneDeep(a) ==
    /\ NextIcon <= MaxIcons
    /\ NextMap <= MaxMaps
    /\ icons' = icons @@ (NextIcon :> [icons[a] EXCEPT !.Attrs = NextMap, !.from = a])
    /\ attrMaps' = attrMaps @@ (NextMap :> AttrsOf(a))
    /\ iconMu' = iconMu @@ (NextIcon :> 0)

\* Icon.clone of gen "once": a new Icon with the same fields, the Attrs map
\* itself (a Go map is a reference) and a fresh mu
cloneShallow(a) == [icons[a] EXCEPT !.from = a]

\* The state of a sync.Mutex that was copied while locked: locked, and no
\* goroutine has an Unlock of it pending
LockedCopy == -1

\* IconBuilder{icon: *icon} of gen "once": a copy of the struct, its mu included
copyStruct(a) ==
    /\ NextIcon <= MaxIcons
    /\ icons' = icons @@ (NextIcon :> [icons[a] EXCEPT !.from = a])
    /\ attrMaps' = attrMaps
    /\ iconMu' = iconMu @@ (NextIcon :> IF iconMu[a] = 0 THEN 0 ELSE LockedCopy)

\* (a variant that keeps a pointer to the template itself)
ConfigureIconAliasing(b, t) ==
    /\ CallerIdle
    /\ Tick
    /\ b \notin DOMAIN builders
    /\ t \in Callable
    /\ builders' = builders @@ (b :> Builder(t, t))
    /\ UNCHANGED <<fetch, gen, datasetKind, icons, attrMaps, iconMu, held, iconBodyCache,
                   cacheMutex, iconDataOnce, decodes, pc, frame, out>>

\* ConfigureIcon(icon): a new builder over a copy of the icon
ConfigureIcon(b, t) ==
    /\ CallerIdle
    /\ Tick
    /\ b \notin DOMAIN builders
    /\ t \in Callable
    /\ IF gen = "mutex" THEN cloneDeep(t) ELSE copyStruct(t)
    /\ builders' = builders @@ (b :> Builder(NextIcon, t))
    /\ UNCHANGED <<fetch, gen, datasetKind, held, iconBodyCache, cacheMutex, iconDataOnce,
                   decodes, pc, frame, out>>

\* icon.Config() (gen "mutex"): the same as ConfigureIcon(icon)
Config(b, t) ==
    /\ gen = "mutex"
    /\ CallerIdle
    /\ Tick
    /\ b \notin DOMAIN builders
    /\ t \in Callable
    /\ cloneDeep(t)
    /\ builders' = builders @@ (b :> Builder(NextIcon, t))
    /\ UNCHANGED <<fetch, gen, datasetKind, held, iconBodyCache, cacheMutex, iconDataOnce,
                   decodes, pc, frame, out>>

\* (a variant that also drops the Attrs of the builder's icon)
SetFieldDroppingAttrs(b, field, value) ==
    /\ CallerIdle
    /\ Tick
    /\ b \in DOMAIN builders
    /\ icons' = [icons EXCEPT ![builders[b].icon][field] = value,
                              ![builders[b].icon].Attrs = 0]
    /\ UNCHANGED <<fetch, gen, datasetKind, attrMaps, builders, held, iconBodyCache,
                   cacheMutex, iconDataOnce, iconMu, decodes, pc, frame, out>>

\* A builder setter: one field of the builder's icon is assigned
SetField(b, field, value) ==
    /\ CallerIdle
    /\ Tick
    /\ b \in DOMAIN builders
    /\ icons' = [icons EXCEPT ![builders[b].icon][field] = value]
    /\ UNCHANGED <<fetch, gen, datasetKind, attrMaps, builders, held, iconBodyCache,
                   cacheMutex, iconDataOnce, iconMu, decodes, pc, frame, out>>

SetSize(b, size) == SetField(b, "Size", Itoa(size))
SetColor(b, value) == gen = "mutex" /\ SetField(b, "Color", value)
SetStroke(b, value) == gen = "once" /\ SetField(b, "Stroke", value)
SetStrokeWidth(b, value) == gen = "once" /\ SetField(b, "StrokeWidth", value)
SetFill(b, value) == gen = "once" /\ SetField(b, "Fill", value)

\* Variant: the entries of the map the icon had are kept beside the new ones
SetAttrsMerging(b, m) ==
    /\ CallerIdle
    /\ Tick
    /\ b \in DOMAIN builders
    /\ NextMap <= MaxMaps
    /\ attrMaps' = attrMaps @@ (NextMap :> (m @@ AttrsOf(builders[b].icon)))
    /\ icons' = [icons EXCEPT ![builders[b].icon].Attrs = NextMap]
    /\ UNCHANGED <<fetch, gen, datasetKind, builders, held, iconBodyCache,
                   cacheMutex, iconDataOnce, iconMu, decodes, pc, frame, out>>

\* SetAttrs(attrs) with a map literal of the caller: b.icon.Attrs = attrs
SetAttrs(b, m) ==
    /\ CallerIdle
    /\ Tick
    /\ b \in DOMAIN builders
    /\ NextMap <= MaxMaps
    /\ attrMaps' = attrMaps @@ (NextMap :> m)
    /\ icons' = [icons EXCEPT ![builders[b].icon].Attrs = NextMap]
    /\ UNCHANGED <<fetch, gen, datasetKind, builders, held, iconBodyCache,
                   cacheMutex, iconDataOnce, iconMu, decodes, pc, frame, out>>

\* Build() (gen "once": &b.icon) and GetIcon() (gen "mutex": b.icon): the caller
\* gets a pointer to the builder's own icon
Build(b) ==
    /\ CallerIdle
    /\ Tick
    /\ b \in DOMAIN builders
    /\ held' = held \cup {builders[b].icon}
    /\ builders' = [builders EXCEPT ![b].built = @ \cup {builders[b].icon}]
    /\ UNCHANGED <<fetch, gen, datasetKind, icons, attrMaps, iconBodyCache,
                   cacheMutex, iconDataOnce, iconMu, decodes, pc, frame, out>>

\* The caller renders one call at a time; the results of its last two renders
\* stay readable, one per slot
Renderers == {1, 2}

\* IconBuilder.Render() (gen "mutex"): b.icon.Render()
BuilderRender(b) ==
    /\ gen = "mutex"
    /\ CallerIdle
    /\ Tick
    /\ b \in DOMAIN builders
    /\ \E p \in Renderers : EnterRender(p, builders[b].icon, Snapshot(builders[b].icon))

\* The caller renders an Icon it has a pointer to
CallerRender(a) ==
    /\ CallerIdle
    /\ Tick
    /\ a \in Callable
    /\ \E p \in Renderers : EnterRender(p, a, Snapshot(a))

\* Icon.SetSize / SetStroke / SetStrokeWidth / SetFill (gen "once"): a clone with
\* one field assigned is returned
IconSetField(a, field, value) ==
    /\ gen = "once"
    /\ CallerIdle
    /\ Tick
    /\ a \in Callable
    /\ NextIcon <= MaxIcons
    /\ icons' = icons @@ (NextIcon :> [cloneShallow(a) EXCEPT ![field] = value])
    /\ iconMu' = iconMu @@ (NextIcon :> 0)
    /\ held' = held \cup {NextIcon}
    /\ UNCHANGED <<fetch, gen, datasetKind, attrMaps, builders, iconBodyCache,
                   cacheMutex, iconDataOnce, decodes, pc, frame, out>>

IconSetSize(a, size) == IconSetField(a, "Size", Itoa(size))
IconSetStroke(a, value) == IconSetField(a, "Stroke", value)
IconSetStrokeWidth(a, value) == IconSetField(a, "StrokeWidth", value)
IconSetFill(a, value) == IconSetField(a, "Fill", value)

\* Icon.SetAttrs (gen "once") with a map literal of the caller
IconSetAttrs(a, m) ==
    /\ gen = "once"
    /\ CallerIdle
    /\ Tick
    /\ a \in Callable
    /\ NextIcon <= MaxIcons
    /\ NextMap <= MaxMaps
    /\ attrMaps' = attrMaps @@ (NextMap :> m)
    /\ icons' = icons @@ (NextIcon :> [cloneShallow(a) EXCEPT !.Attrs = NextMap])
    /\ iconMu' = iconMu @@ (NextIcon :> 0)
    /\ held' = held \cup {NextIcon}
    /\ UNCHANGED <<fetch, gen, datasetKind, builders, iconBodyCache,
                   cacheMutex, iconDataOnce, decodes, pc, frame, out>>

\* The caller's own statement icon.Attrs[key] = value (Attrs is an exported
\* field; an assignment to an entry of a nil map panics and is left out)
PutAttr(a, key, value) ==
    /\ CallerIdle
    /\ Tick
    /\ a \in Callable
    /\ icons[a].Attrs # 0
    /\ attrMaps' = [attrMaps EXCEPT ![icons[a].Attrs] = (key :> value) @@ @]
    /\ UNCHANGED <<fetch, gen, datasetKind, icons, builders, held, iconBodyCache,
                   cacheMutex, iconDataOnce, iconMu, decodes, pc, frame, out>>

\* The caller's own statement delete(icon.Attrs, key)
DeleteAttr(a, key) ==
    /\ CallerIdle
    /\ Tick
    /\ a \in Callable
    /\ icons[a].Attrs # 0
    /\ key \in DOMAIN attrMaps[icons[a].Attrs]
    /\ attrMaps' = [attrMaps EXCEPT ![icons[a].Attrs] =
                        [k \in (DOMAIN @) \ {key} |-> @[k]]]
    /\ UNCHANGED <<fetch, gen, datasetKind, icons, builders, held, iconBodyCache,
                   cacheMutex, iconDataOnce, iconMu, decodes, pc, frame, out>>

----------------------------------------------------------------------------
(* SpecBuild: one caller configures, builds, edits and renders *)

BuilderIds == 1..MaxBuilders
BuildSizes == {32}
BuildValues == {ValRed}
BuildAttrs == {(KeyClass :> StrVal(ValTrue)), (KeyDataCount :> StrVal(ValTrue))}
BuildKeys == {KeyClass}

\* The template is a fresh literal (with or without attributes) before any use of
\* the dataset, or it carries a body of its own (as the package's own code may
\* set it) after an earlier call has loaded the dataset
InitBuild ==
    /\ gen \in Gens
    /\ datasetKind = "valid"
    /\ \E m \in {0, 1}, own \in BOOLEAN :
          /\ own => m = 0
          /\ icons = (1 :> [Icon("moon", "Outline", <<"2", "4">>, m) EXCEPT
                                !.body = IF own THEN "B_own" ELSE ""])
          /\ attrMaps = IF m = 0 THEN << >> ELSE (1 :> (KeyAriaHidden :> StrVal(ValTrue)))
          /\ iconBodyCache = IF own THEN DatasetBodies("valid") ELSE EmptyMap
          /\ iconDataOnce = IF own /\ gen = "once" THEN "done" ELSE "fresh"
          /\ decodes = IF own THEN 1 ELSE 0
    /\ builders = << >>
    /\ held = {}
    /\ cacheMutex = 0
    /\ iconMu = [a \in {1} |-> 0]
    /\ pc = [p \in Procs |-> "idle"]
    /\ frame = [p \in Procs |-> IdleFrame]
    /\ out = [p \in Procs |-> NoOut]
    /\ calls = 0
    /\ fetch = NoFetch

\* A Set* call on builder b
SetCall(b) ==
    \/ \E n \in BuildSizes : SetSize(b, n)
    \/ \E v \in BuildValues : SetColor(b, v)
    \/ \E v \in BuildValues : SetStroke(b, v)
    \/ \E v \in BuildValues : SetStrokeWidth(b, v)
    \/ \E v \in BuildValues : SetFill(b, v)
    \/ \E m \in BuildAttrs : SetAttrs(b, m)

\* A call that makes builder b, or a call on it
BuilderCall(b) ==
    \/ \E t \in DOMAIN icons : ConfigureIcon(b, t)
    \/ \E t \in DOMAIN icons : Config(b, t)
    \/ SetCall(b)
    \/ Build(b)

\* A call of one of the Icon.Set* methods of gen "once"
IconCall(a) ==
    \/ \E n \in BuildSizes : IconSetSize(a, n)
    \/ \E v \in BuildValues : IconSetStroke(a, v)
    \/ \E v \in BuildValues : IconSetStrokeWidth(a, v)
    \/ \E v \in BuildValues : IconSetFill(a, v)
    \/ \E m \in BuildAttrs : IconSetAttrs(a, m)

\* The caller writes to a map it can reach
CallerEdit(a) ==
    \/ \E k \in BuildKeys, v \in BuildValues : PutAttr(a, k, StrVal(v))
    \/ \E k \in BuildKeys : DeleteAttr(a, k)

\* One statement of the caller
CallerStatement ==
    \/ \E b \in BuilderIds : BuilderCall(b)
    \/ \E b \in BuilderIds : BuilderRender(b)
    \/ \E a \in DOMAIN icons : IconCall(a)
    \/ \E a \in DOMAIN icons : CallerEdit(a)
    \/ \E a \in DOMAIN icons : CallerRender(a)

NextBuild ==
    \/ CallerStatement
    \/ \E p \in Renderers : Step(p)

SpecBuild == InitBuild /\ [][NextBuild]_vars

----------------------------------------------------------------------------
(* What a builder may and may not change *)

\* The configurable fields of an Icon, with the content of its Attrs map
View(a) ==
    [Size |-> icons[a].Size, Color |-> icons[a].Color, Stroke |-> icons[a].Stroke,
     StrokeWidth |-> icons[a].StrokeWidth, Fill |-> icons[a].Fill,
     Attrs |-> AttrsOf(a)]

\* C1: the call that makes a builder from a template (ConfigureIcon, Config) and
\* every later call on that builder (SetSize, SetColor resp. SetStroke,
\* SetStrokeWidth, SetFill, SetAttrs, Build / GetIcon) leave the template's Size,
\* Color, Stroke, StrokeWidth, Fill and Attrs as they were.
C1_TemplateUnchanged ==
    [][\A b \in BuilderIds, t \in DOMAIN icons :
          (BuilderCall(b) /\ b \in DOMAIN builders' /\ builders'[b].of = t)
              => View(t)' = View(t)]_vars

\* C1's case: a builder made from template 1 has had its size and its attrs set
\* and has been built, and the template still has the size and the attrs it
\* started with.
C1_Witness ==
    \E b \in DOMAIN builders :
        /\ builders[b].of = 1
        /\ builders[b].built # {}
        /\ icons[builders[b].icon].Size = Itoa(32)
        /\ KeyClass \in DOMAIN AttrsOf(builders[b].icon)
        /\ icons[1].Size = <<"2", "4">>
        /\ AttrsOf(1) = (KeyAriaHidden :> StrVal(ValTrue))

\* C5: a Set* call on a builder changes no field, and no attribute, of a record
\* that Build / GetIcon of that builder has returned before.
C5_BuiltRecordFrozen ==
    [][\A b \in DOMAIN builders :
          SetCall(b) => \A r \in builders[b].built :
                            /\ icons'[r] = icons[r]
                            /\ AttrsOf(r)' = AttrsOf(r)]_vars

\* C6: when the caller adds, overwrites or deletes an entry of an Icon's Attrs,
\* the Attrs of the Icon it was copied from and of every Icon copied from it keep
\* their content; and a copy starts with the body its original has then.
C6_AttrsCopyIndependent ==
    [][/\ \A a \in DOMAIN icons :
             CallerEdit(a) => \A c \in DOMAIN icons :
                                 (icons[c].from = a \/ icons[a].from = c)
                                     => AttrsOf(c)' = AttrsOf(c)
       /\ \A c \in (DOMAIN icons') \ (DOMAIN icons) :
             icons'[c].from # 0 => icons'[c].body = icons[icons'[c].from].body]_vars

----------------------------------------------------------------------------
(* What getIconBody returns *)

\* p's direct call of getIconBody has ended
GetEnded(p) == pc[p] = "idle" /\ frame[p].op = "get" /\ out[p] # NoOut

\* C11: against a dataset that parses, getIconBody(name) returns the dataset's
\* body and a nil error when name is a key of the icons mapping, and otherwise
\* (the empty name included) an empty body and the NotFound error that holds the
\* name.
C11_BodyOrNotFound ==
    \A p \in Procs :
        (GetEnded(p) /\ datasetKind \in ParsedKinds)
            => LET n == frame[p].name
                   D == DatasetBodies(datasetKind)
               IN  IF n \in DOMAIN D
                   THEN out[p] = GetResult(D[n], NilErr)
                   ELSE out[p] = GetResult("", <<"icon '", n, "' not found">>)

\* C11's case: one call has returned the body of "sun" and another has returned
\* NotFound for the empty name.
C11_Witness ==
    \E p, q \in Procs :
        /\ datasetKind = "valid"
        /\ GetEnded(p) /\ frame[p].name = "sun" /\ out[p].body = "B_sun"
        /\ GetEnded(q) /\ frame[q].name = "" /\ out[q].text = <<"icon '", "", "' not found">>

\* C12: when the dataset cannot be opened or does not parse, the first
\* getIconBody call (one that started before any load and ran the load itself)
\* does not panic and returns no body and the error "failed to parse heroicons
\* JSON", not NotFound.
C12_ParseErrorReturned ==
    \A p \in Procs :
        (GetEnded(p) /\ frame[p].cold /\ frame[p].decoded
                     /\ datasetKind \notin ParsedKinds)
            => /\ out[p].kind = "result"
               /\ out[p].body = ""
               /\ out[p].text # << >>
               /\ out[p].text[1] = "failed to parse heroicons JSON"

\* p's call (a direct one, or the one inside a render) has succeeded
Succeeded(p) ==
    /\ pc[p] = "idle"
    /\ \/ frame[p].op = "get" /\ out[p].kind = "result" /\ out[p].text = NilErr
       \/ frame[p].op = "render" /\ out[p].kind = "svg"

\* C13: once a getIconBody call against a valid dataset has succeeded, the cache
\* holds every icon name of the dataset with that icon's body, not only the
\* requested one.
C13_CacheHoldsAll ==
    (datasetKind = "valid" /\ \E p \in Procs : Succeeded(p))
        => iconBodyCache = DatasetBodies("valid")

\* C13's case: a call for "sun" has succeeded and the cache holds "moon" too.
C13_Witness ==
    \E p \in Procs :
        /\ datasetKind = "valid"
        /\ Succeeded(p) /\ frame[p].op = "get" /\ frame[p].name = "sun"
        /\ "moon" \in DOMAIN iconBodyCache /\ iconBodyCache["moon"] = "B_moon"

\* C14: with a valid dataset, no call that starts after a decode of the dataset
\* opens and decodes it for a name for which an earlier, finished call has
\* already decoded it, whether the name is in the dataset or not; and no step
\* removes or changes a cache entry.
C14_DecodedOncePerName ==
    [][/\ \A n \in DOMAIN iconBodyCache :
             n \in DOMAIN iconBodyCache' /\ iconBodyCache'[n] = iconBodyCache[n]
       /\ \A p, q \in Procs :
             (datasetKind = "valid" /\ p # q /\ ~frame[p].cold /\ Decode(p))
                 => ~(pc[q] = "idle" /\ frame[q].decoded
                         /\ frame[q].name = frame[p].name)]_vars

----------------------------------------------------------------------------
(* The attributes the renderer writes on its own *)

\* The box the specification gives a variant
SpecBox(type) ==
    CASE type = "Mini" -> <<"2", "0">>
      [] type = "Micro" -> <<"1", "6">>
      [] OTHER -> <<"2", "4">>

C16_DefaultsByVariant ==
    (Rendered /\ out[1].kind = "svg")
        => LET fill == Named(out[1], KeyFill)
               width == Named(out[1], KeyStrokeWidth)
               stroke == Named(out[1], KeyStroke)
           IN  CASE icons[1].Type = "Outline" ->
                       /\ fill = << <<KeyFill, StrNone>> >>
                       /\ Len(width) = 1 /\ Len(stroke) = 1
                 [] icons[1].Type \in {"Solid", "Mini", "Micro"} ->
                       /\ Len(fill) = 1
                       /\ width = << >> /\ stroke = << >>
                 [] OTHER ->
                       fill = << >> /\ width = << >> /\ stroke = << >>

\* The attributes of the tag that come from the attrs mapping: what follows the
\* attributes the renderer writes on its own
Extras == SubSeq(out[1].attrs, Len(OwnTag.attrs) + 1, Len(out[1].attrs))

\* a comes before b in ascending lexicographic (byte) order
LexBefore(a, b) ==
    \E i \in 1..Len(b) :
        /\ \A j \in 1..(i - 1) : j <= Len(a) /\ a[j] = b[j]
        /\ (i > Len(a) \/ Ord(a[i]) < Ord(b[i]))

\* C17: the extra attributes stand in ascending lexicographic order of their
\* keys: of any two of them the earlier one is written for a key of the mapping
\* that comes before a key the later one is written for.  (The mapping has no
\* insertion order of its own, so the tag depends on its content alone.)
C17_ExtrasSorted ==
    (Rendered /\ out[1].kind = "svg")
        => \A i, j \in 1..Len(Extras) :
              i < j => \E a, b \in DOMAIN AttrsOf(1) :
                          /\ LexBefore(a, b)
                          /\ Extras[i][1] = EscapeString(a)
                          /\ Extras[j][1] = EscapeString(b)

\* C17's case: attrs {color: red, class: true} rendered class before color.
C17_Witness ==
    /\ Rendered /\ out[1].kind = "svg"
    /\ AttrsOf(1) = (KeyColor :> StrVal(ValRed)) @@ (KeyClass :> StrVal(ValTrue))
    /\ Extras = << <<KeyClass, ValTrue>>, <<KeyColor, ValRed>> >>

----------------------------------------------------------------------------
(* Building and rendering twice *)

\* The caller's render in slot p has returned
RenderEnded(p) == pc[p] = "idle" /\ frame[p].op = "render" /\ out[p] # NoOut

\* A record with the documented defaults written into the fields left unset
Settled(v) ==
    [v EXCEPT
        !.Fill = IF v.Fill # << >> THEN v.Fill
                 ELSE IF v.Type = "Outline" THEN StrNone ELSE StrCurrentColor,
        !.Stroke = IF v.Stroke # << >> THEN v.Stroke ELSE StrCurrentColor,
        !.StrokeWidth = IF v.StrokeWidth # << >> THEN v.StrokeWidth
                        ELSE StrDefaultStrokeWidth]

----------------------------------------------------------------------------
(* SetAttrs *)

\* C19: SetAttrs(m) leaves the builder's record, the one Build / GetIcon
\* returns, with exactly the keys and values of m: no entry of the template's
\* map and none of an earlier SetAttrs call is kept unless m holds it.
C19_SetAttrsReplaces ==
    [][\A b \in DOMAIN builders, m \in BuildAttrs :
          SetAttrs(b, m) => AttrsOf(builders[b].icon)' = m]_vars

\* A builder over a template with an aria-hidden entry had SetAttrs called a
\* second time, with class only, and Build / GetIcon returned its record
C19_Witness ==
    \E b \in DOMAIN builders :
        /\ builders[b].built # {}
        /\ KeyAriaHidden \in DOMAIN AttrsOf(builders[b].of)
        /\ KeyDataCount \in UNION {DOMAIN attrMaps[k] : k \in DOMAIN attrMaps}
        /\ AttrsOf(builders[b].icon) = (KeyClass :> StrVal(ValTrue))

----------------------------------------------------------------------------
(* SpecLive: a template is rendered and configured at the same time *)

\* ConfigureIcon(icon) (gen "mutex" also icon.Config()), called by a goroutine
\* while others may be rendering the same icon
ConfigureDuring(b, t) ==
    /\ b \notin DOMAIN builders
    /\ t \in DOMAIN icons
    /\ IF gen = "mutex" THEN cloneDeep(t) ELSE copyStruct(t)
    /\ builders' = builders @@ (b :> Builder(NextIcon, t))
    /\ UNCHANGED <<fetch, gen, datasetKind, held, iconBodyCache, cacheMutex, iconDataOnce,
                   decodes, pc, frame, out, calls>>

InitLive ==
    /\ gen \in Gens
    /\ datasetKind \in DatasetKinds
    /\ icons = (1 :> Icon("moon", "Outline", <<"2", "4">>, 0))
    /\ attrMaps = << >>
    /\ builders = << >>
    /\ held = {}
    /\ iconBodyCache = EmptyMap
    /\ cacheMutex = 0
    /\ iconDataOnce = "fresh"
    /\ iconMu = [a \in {1} |-> 0]
    /\ decodes = 0
    /\ pc = [p \in Procs |-> "idle"]
    /\ frame = [p \in Procs |-> IdleFrame]
    /\ out = [p \in Procs |-> NoOut]
    /\ calls = 0
    /\ fetch = NoFetch

NextLive ==
    \/ \E p \in Procs, a \in DOMAIN icons : CallRender(p, a)
    \/ \E b \in BuilderIds : ConfigureDuring(b, 1)
    \/ \E p \in Procs, n \in SharedNames : CallGetIconBody(p, n)
    \/ \E p \in Procs : Step(p)

\* The Go scheduler runs every runnable goroutine, and sync.Mutex hands a lock
\* that keeps being released to a goroutine that keeps waiting for it
SpecLive ==
    InitLive /\ [][NextLive]_vars /\ \A p \in Procs : SF_vars(Step(p))

\* C20: every render (of the template, or of the record a builder made from it
\* while the template was being rendered) and every getIconBody call that has
\* started returns, and once every call has returned no call has left the cache
\* mutex or an icon's mutex locked.
C20_EveryCallReturns ==
    /\ \A p \in Procs : (pc[p] # "idle") ~> (pc[p] = "idle")
    /\ [](CallerIdle => (cacheMutex = 0 /\ \A a \in DOMAIN iconMu : iconMu[a] \notin Procs))

----------------------------------------------------------------------------
(* Which entries of the attrs mapping reach the tag *)

\* The keys of the mapping whose entries the specification lets through
Eligible(attrs) ==
    {k \in DOMAIN attrs :
        /\ attrs[k].t = "string"
        /\ k \notin SpecReservedKeys
        /\ ~(k \in SpecEventKeys /\ UnsafeValue(attrs[k].s))}

\* C22: the extra attributes of the tag are exactly the entries of the mapping
\* that hold a string, under a key that is not reserved, and are not an event
\* attribute with an unsafe value: each of them is written once, key and value
\* escaped, and nothing is written for an entry whose value is not a string.
C22_ExtrasExactlyEligible ==
    (Rendered /\ out[1].kind = "svg")
        => LET E == Eligible(AttrsOf(1))
           IN  /\ Len(Extras) = Cardinality(E)
               /\ {Extras[i] : i \in 1..Len(Extras)}
                    = {<<EscapeString(k), EscapeString(AttrsOf(1)[k].s)>> : k \in E}

\* C22's case: of {data-count: <a number>, aria-hidden: true} only aria-hidden
\* was written.
C22_Witness ==
    /\ Rendered /\ out[1].kind = "svg"
    /\ AttrsOf(1) = (KeyDataCount :> OtherVal) @@ (KeyAriaHidden :> StrVal(ValTrue))
    /\ Extras = << <<KeyAriaHidden, ValTrue>> >>

----------------------------------------------------------------------------
(* The order of the parts of a tag *)

\* The keys of a sequence of attributes, in order
KeysOf(as) == [i \in 1..Len(as) |-> as[i][1]]

\* The keys of the visual attributes of a variant, in the order of the
\* specification's example
SpecVisualKeys(type) ==
    CASE type = "Outline" -> <<KeyFill, KeyStrokeWidth, KeyStroke>>
      [] type \in {"Solid", "Mini", "Micro"} -> <<KeyFill>>
      [] OTHER -> << >>

----------------------------------------------------------------------------
(* What a setter writes *)

\* Across the step, the record at address a differs from the record at address
\* o before the step in field f at most, and holds the same attributes unless f
\* is Attrs
OnlyField(a, o, f) ==
    /\ \A g \in (DOMAIN icons[o]) \ {f, "from"} : icons'[a][g] = icons[o][g]
    /\ f # "Attrs" => AttrsOf(a)' = AttrsOf(o)

\* C24: SetSize(n) leaves the decimal string of n in Size, SetColor, SetStroke,
\* SetStrokeWidth and SetFill leave their argument in the field they name,
\* SetAttrs leaves its argument as Attrs, and each of them leaves every other
\* field of the record it writes (the builder's clone, or the clone an Icon
\* setter returns) as it was (in the original); and no step at all changes the
\* Name or the Type of a record, or makes a copy with another Name or Type.
C24_SetterWritesOwnFacet ==
    [][/\ \A b \in DOMAIN builders : \A a \in {builders[b].icon} :
                 /\ \A n \in BuildSizes :
                       SetSize(b, n) => icons'[a].Size = Itoa(n) /\ OnlyField(a, a, "Size")
                 /\ \A v \in BuildValues :
                       /\ SetColor(b, v) => icons'[a].Color = v /\ OnlyField(a, a, "Color")
                       /\ SetStroke(b, v) => icons'[a].Stroke = v /\ OnlyField(a, a, "Stroke")
                       /\ SetStrokeWidth(b, v)
                            => icons'[a].StrokeWidth = v /\ OnlyField(a, a, "StrokeWidth")
                       /\ SetFill(b, v) => icons'[a].Fill = v /\ OnlyField(a, a, "Fill")
                 /\ \A m \in BuildAttrs :
                       SetAttrs(b, m) => AttrsOf(a)' = m /\ OnlyField(a, a, "Attrs")
       /\ \A o \in DOMAIN icons : \A c \in {NextIcon} :
                 /\ \A n \in BuildSizes :
                       IconSetSize(o, n) => icons'[c].Size = Itoa(n) /\ OnlyField(c, o, "Size")
                 /\ \A v \in BuildValues :
                       /\ IconSetStroke(o, v)
                            => icons'[c].Stroke = v /\ OnlyField(c, o, "Stroke")
                       /\ IconSetStrokeWidth(o, v)
                            => icons'[c].StrokeWidth = v /\ OnlyField(c, o, "StrokeWidth")
                       /\ IconSetFill(o, v) => icons'[c].Fill = v /\ OnlyField(c, o, "Fill")
                 /\ \A m \in BuildAttrs :
                       IconSetAttrs(o, m) => AttrsOf(c)' = m /\ OnlyField(c, o, "Attrs")
       /\ \A a \in DOMAIN icons :
             icons'[a].Name = icons[a].Name /\ icons'[a].Type = icons[a].Type
       /\ \A c \in (DOMAIN icons') \ (DOMAIN icons) :
             /\ icons'[c].Name = icons[icons'[c].from].Name
             /\ icons'[c].Type = icons[icons'[c].from].Type]_vars

\* A builder over a template with attributes had its size set to 32 and a
\* color (or stroke) set, and its record still has the template's name, type
\* and attributes
C24_Witness ==
    \E b \in DOMAIN builders :
        LET a == builders[b].icon
        IN  /\ icons[a].Size = <<"3", "2">>
            /\ icons[a].Color = ValRed \/ icons[a].Stroke = ValRed
            /\ icons[a].Name = "moon" /\ icons[a].Type = "Outline"
            /\ AttrsOf(a) = (KeyAriaHidden :> StrVal(ValTrue))

----------------------------------------------------------------------------
(* What a render writes into the record *)

\* C25: no step of a render changes the Size, Color, Stroke, StrokeWidth, Fill
\* or Attrs of a record; the body is the only field a render writes, and only
\* when it was empty.
C25_RenderKeepsFacets ==
    [][\A a \in DOMAIN icons :
          /\ View(a)' = View(a)
          /\ icons'[a].body # icons[a].body => icons[a].body = ""]_vars

----------------------------------------------------------------------------
(* When the body is resolved *)

\* The positions of a goroutine inside getIconBody
InGetIconBody(at) == at \in {"lock", "check", "onceDo", "decode", "populate", "lookup"}

\* C26: the dataset is opened and decoded, and the cache written, by no step but
\* one of a running render: no ConfigureIcon / Config, setter, Build / GetIcon or
\* edit of a map does it, and no copy gets another body than its original has.
\* And a render of a record that has a body does not enter getIconBody and
\* returns a tag with that body.
C26_ResolvedAtRenderOnly ==
    [][/\ (decodes' # decodes \/ iconBodyCache' # iconBodyCache
                                \/ iconDataOnce' # iconDataOnce)
            => \E p \in Procs : frame[p].op = "render" /\ InGetIconBody(pc[p])
       /\ \A a \in DOMAIN icons :
             icons'[a].body # icons[a].body
                => \E p \in Procs : frame[p].icon = a /\ pc[p] = "storeBody"
       /\ \A c \in (DOMAIN icons') \ (DOMAIN icons) :
             icons'[c].body = icons[icons'[c].from].body
       /\ \A p \in Procs, a \in DOMAIN icons :
             (/\ frame'[p].op = "render"
              /\ frame'[p].icon = a
              /\ icons[a].body # ""
              /\ pc[p] \in {"idle", "fetchBody", "ensureDefaults", "bodyCheck", "emit"})
                => /\ ~InGetIconBody(pc'[p])
                   /\ (pc[p] = "emit" /\ pc'[p] = "idle")
                        => out'[p].kind = "svg" /\ out'[p].body = icons[a].body]_vars

\* The record of a builder over a template with a body of its own was rendered
\* while the cache held another body for its name, and the tag has the
\* record's body
C26_Witness ==
    \E b \in DOMAIN builders, p \in Procs :
        /\ RenderEnded(p)
        /\ frame[p].icon = builders[b].icon
        /\ icons[builders[b].icon].Name = "moon"
        /\ iconBodyCache["moon"] = "B_moon"
        /\ out[p].kind = "svg"
        /\ out[p].body = "B_own"

----------------------------------------------------------------------------
(* A dataset without icons, and one that does not parse *)

C28_AlwaysParseError ==
    datasetKind = "invalid"
        => /\ iconBodyCache = EmptyMap
           /\ \A p \in Procs :
                 GetEnded(p)
                    => /\ out[p].kind = "result"
                       /\ out[p].body = ""
                       /\ out[p].text # << >>
                       /\ out[p].text[1] = "failed to parse heroicons JSON"

----------------------------------------------------------------------------
(* Attribute names of the root tag *)

\* C29: the root tag of a successful render carries no attribute name twice,
\* whatever the variant, the overrides and the attrs mapping.
C29_NoNameTwice ==
    (Rendered /\ out[1].kind = "svg")
        => \A i, j \in 1..Len(out[1].attrs) :
              out[1].attrs[i][1] = out[1].attrs[j][1] => i = j

----------------------------------------------------------------------------
(* A resolution that failed *)

\* C30: once a render of a record has ended in the diagnostic comment, the
\* record's body is still empty, the cache has no entry under the record's
\* name, and every render of that record that has returned a fragment returned
\* that same comment.
C30_FailureNotCached ==
    \A p \in Procs :
        (RenderEnded(p) /\ out[p].kind = "comment")
            => \A a \in {frame[p].icon} :
                  /\ icons[a].body = ""
                  /\ icons[a].Name \notin DOMAIN iconBodyCache
                  /\ \A q \in Procs :
                        (RenderEnded(q) /\ frame[q].icon = a
                            /\ out[q].kind \in {"comment", "svg"})
                           => out[q] = out[p]

----------------------------------------------------------------------------
(* SpecFetch: the generator fetches the dataset, with retries and a cache file *)

MaxRuns == 2

\* What a 200 response may carry
Bodies == {"D1", "D2"}

\* What io.ReadAll has read when the read fails
PartialReads == {NoData, "D-"}

GetErr == "Get failed"
ReadErr == "read failed"
WriteErr == "write failed"

isCacheValid(file) == file.exists /\ file.fresh

\* The rest of the model does not move while the generator runs
UnchangedProgram ==
    UNCHANGED <<gen, datasetKind, icons, attrMaps, builders, held, iconBodyCache,
                cacheMutex, iconDataOnce, iconMu, decodes, pc, frame, out, calls>>

\* fetchAndCacheDataset is called: a valid cache file is read and returned
\* (readOk: os.ReadFile succeeds), otherwise fetchDatasetWithRetry starts
fetchAndCacheDataset(readOk) ==
    /\ fetch.at \in {"idle", "done"}
    /\ fetch.runs < MaxRuns
    /\ IF isCacheValid(fetch.cache)
       THEN fetch' = [fetch EXCEPT
                        !.at = "done", !.runs = @ + 1, !.log = << >>,
                        !.ret = NoFetch.ret,
                        !.result = IF readOk
                                   THEN [data |-> fetch.cache.content, err |-> NoError]
                                   ELSE [data |-> NoData, err |-> ReadErr]]
       ELSE /\ readOk
            /\ fetch' = [fetch EXCEPT
                           !.at = "get", !.runs = @ + 1, !.log = << >>,
                           !.attempt = 1, !.lastErr = NoError,
                           !.ret = NoFetch.ret, !.result = NoFetch.result]
    /\ UnchangedProgram

\* One turn of the loop up to the end of the if/else: http.Get answers with a
\* transport error, with another status than 200, or with 200 and a body; after
\* a 200 io.ReadAll returns the body, or what it has read and an error
httpGet(answer, body, readOk, partial) ==
    /\ fetch.at = "get"
    /\ fetch.attempt <= maxRetries
    /\ IF answer = "ok"
       THEN fetch' = [fetch EXCEPT
                        !.at = "returned",
                        !.log = Append(@, [ev |-> "ok", body |-> body]),
                        !.ret = IF readOk THEN [data |-> body, err |-> NoError]
                                ELSE [data |-> partial, err |-> ReadErr]]
       ELSE fetch' = [fetch EXCEPT
                        !.at = "wait",
                        !.log = Append(@, [ev |-> answer, body |-> NoData]),
                        !.lastErr = AttemptErr(fetch.attempt,
                                               IF answer = "error" THEN GetErr
                                               ELSE NoError)]
    /\ UnchangedProgram

\* "if attempt < maxRetries { time.Sleep(delay) }" and attempt++
retryDelay ==
    /\ fetch.at = "wait"
    /\ fetch' = [fetch EXCEPT
                   !.at = "get",
                   !.attempt = @ + 1,
                   !.log = IF fetch.attempt < maxRetries
                           THEN Append(@, [ev |-> "sleep", body |-> NoData])
                           ELSE @]
    /\ UnchangedProgram

\* The loop condition fails: return nil, lastErr
fetchDatasetWithRetry ==
    /\ fetch.at = "get"
    /\ fetch.attempt > maxRetries
    /\ fetch' = [fetch EXCEPT !.at = "returned",
                              !.ret = [data |-> NoData, err |-> fetch.lastErr]]
    /\ UnchangedProgram

\* fetchAndCacheDataset after fetchDatasetWithRetry returned: the error is
\* passed on, or the data is written to the cache file (writeOk) and returned
saveCache(writeOk) ==
    /\ fetch.at = "returned"
    /\ IF fetch.ret.err # NoError
       THEN /\ writeOk
            /\ fetch' = [fetch EXCEPT !.at = "done",
                                      !.result = [data |-> NoData, err |-> fetch.ret.err]]
       ELSE IF writeOk
       THEN fetch' = [fetch EXCEPT
                        !.at = "done",
                        !.cache = [exists |-> TRUE, fresh |-> TRUE,
                                   content |-> fetch.ret.data],
                        !.result = [data |-> fetch.ret.data, err |-> NoError]]
       ELSE fetch' = [fetch EXCEPT !.at = "done",
                                   !.result = [data |-> NoData, err |-> WriteErr]]
    /\ UnchangedProgram

\* cacheDuration passes between two runs of the generator
cacheDuration ==
    /\ fetch.at = "done"
    /\ fetch.cache.exists /\ fetch.cache.fresh
    /\ fetch' = [fetch EXCEPT !.cache.fresh = FALSE]
    /\ UnchangedProgram

InitFetch ==
    /\ gen = "mutex"
    /\ datasetKind = "valid"
    /\ icons = (1 :> Icon("moon", "Outline", <<"2", "4">>, 0))
    /\ attrMaps = << >>
    /\ builders = << >>
    /\ held = {}
    /\ iconBodyCache = EmptyMap
    /\ cacheMutex = 0
    /\ iconDataOnce = "fresh"
    /\ iconMu = [a \in {1} |-> 0]
    /\ decodes = 0
    /\ pc = [p \in Procs |-> "idle"]
    /\ frame = [p \in Procs |-> IdleFrame]
    /\ out = [p \in Procs |-> NoOut]
    /\ calls = 0
    /\ \E file \in {NoFile,
                     [exists |-> TRUE, fresh |-> FALSE, content |-> "D0"],
                     [exists |-> TRUE, fresh |-> TRUE, content |-> "D0"]} :
          fetch = [NoFetch EXCEPT !.cache = file]

NextFetch ==
    \/ \E readOk \in BOOLEAN : fetchAndCacheDataset(readOk)
    \/ \E answer \in {"error", "status", "ok"}, body \in Bodies,
          readOk \in BOOLEAN, partial \in PartialReads :
          /\ answer # "ok" => (body = "D1" /\ readOk /\ partial = NoData)
          /\ readOk => partial = NoData
          /\ httpGet(answer, body, readOk, partial)
    \/ retryDelay
    \/ fetchDatasetWithRetry
    \/ \E writeOk \in BOOLEAN : saveCache(writeOk)
    \/ cacheDuration

SpecFetch == InitFetch /\ [][NextFetch]_vars

\* The attempts (not the sleeps) at the positions of the log
Attempts(log) == {i \in 1..Len(log) : log[i].ev # "sleep"}

\* fetchDatasetWithRetry has returned
FetchReturned == fetch.at \in {"returned", "done"} /\ fetch.log # << >>

\* C21: fetchDatasetWithRetry makes at most maxRetries attempts; nothing follows
\* an attempt answered with status 200, and the call returns that answer's body
\* with a nil error; a sleep stands only between two attempts, one between each
\* two; and when maxRetries attempts have failed the call returns no data and
\* an error that is not nil.
C21_RetryContract ==
    LET log == fetch.log
        n == Len(log)
    IN  /\ Cardinality(Attempts(log)) <= maxRetries
        /\ \A i \in 1..n :
              /\ log[i].ev = "ok" => i = n
              /\ log[i].ev = "sleep"
                    => /\ i > 1 /\ log[i - 1].ev \in {"error", "status"}
                       /\ i < n \/ fetch.at = "get"
                       /\ i < n => log[i + 1].ev # "sleep"
              /\ (i < n /\ log[i].ev # "sleep") => log[i + 1].ev = "sleep"
        /\ (FetchReturned /\ log[n].ev = "ok")
              => fetch.ret = [data |-> log[n].body, err |-> NoError]
        /\ (FetchReturned /\ log[n].ev # "ok")
              => /\ Cardinality(Attempts(log)) = maxRetries
                 /\ fetch.ret.data = NoData
                 /\ fetch.ret.err # NoError

====
